---- MODULE Spec2Model ----
(***************************************************************************)
(* Model of package list (src/list.go): the List value type, a pointer to  *)
(* a Go string slice plus a cached length, and its operations.             *)
(*                                                                         *)
(* A Go slice is a header (backing array, len) whose capacity is the size  *)
(* of the backing array; every slice this package stores starts at offset  *)
(* 0 of its array.  The heap is modelled explicitly, because append writes *)
(* into the backing array in place whenever the capacity allows it:        *)
(*   arrays : array id  -> the cells of the backing array (Len = cap)      *)
(*   hdr    : header id -> the slice header a *[]string points to          *)
(*   lists  : the List values of the program, [value, length]              *)
(*   made   : for each List, the call that returned it                     *)
(*   last   : the latest call, its arguments and its outcome               *)
(***************************************************************************)
EXTENDS Integers, Sequences, FiniteSets

\* Values passed to the calls are 1..MaxVal.
MaxVal == 2
\* Longest List of the one-List specification.
MaxCap == 4
\* Longest operand built in the specification of Add and Sub.
ShareCap == 1
\* Longest argument of Extend.
MaxSub == 2

VARIABLES arrays, hdr, lists, made, last

\* The List variables of the program under study: a first List, a second
\* operand and a result.
Slots == <<"a", "b", "r">>

MaxLists == Len(Slots)

vars == <<arrays, hdr, lists, made, last>>

----------------------------------------------------------------------------
(* Values and coercion (github.com/spf13/cast)                             *)

InVals == 1..MaxVal

Digits == <<"0", "1", "2", "3", "4", "5", "6", "7", "8", "9">>

RECURSIVE ToString(_)
ToString(n) ==
  IF n < 10 THEN Digits[n + 1] ELSE ToString(n \div 10) \o Digits[(n % 10) + 1]

Parsable(s) == \E n \in 0..MaxVal : ToString(n) = s

ToInt(s) == IF Parsable(s) THEN CHOOSE n \in 0..MaxVal : ToString(n) = s ELSE 0

ToStringSlice(va) == [i \in 1..Len(va) |-> ToString(va[i])]

ToIntSlice(ss) ==
  IF \A i \in 1..Len(ss) : Parsable(ss[i])
  THEN [i \in 1..Len(ss) |-> ToInt(ss[i])]
  ELSE <<>>

Zero == ""

Zeros(n) == [i \in 1..n |-> Zero]

RECURSIVE InsertSorted(_, _)
InsertSorted(x, s) ==
  IF s = <<>> THEN <<x>>
  ELSE IF x <= Head(s) THEN <<x>> \o s
  ELSE <<Head(s)>> \o InsertSorted(x, Tail(s))

RECURSIVE SortInts(_)
SortInts(s) == IF s = <<>> THEN <<>> ELSE InsertSorted(Head(s), SortInts(Tail(s)))

Max2(a, b) == IF a >= b THEN a ELSE b

Min2(a, b) == IF a <= b THEN a ELSE b

----------------------------------------------------------------------------
(* The heap: slices and append                                             *)

ArrIds == 1..MaxLists

Cap(arrs, sv) == Len(arrs[sv.arr])

Elems(arrs, sv) == SubSeq(arrs[sv.arr], 1, sv.len)

ContentsIn(arrs, hdrs, ls, l) == Elems(arrs, hdrs[ls[l].value])

Contents(l) == ContentsIn(arrays, hdr, lists, l)

\* The capacities a growing append may give the new backing array: the
\* exact fit, or the doubling the gc runtime applies to small slices (kept
\* within lim).  The language fixes only that the array is large enough.
GrowCaps(oldcap, needed, lim) == {needed, Min2(Max2(needed, 2 * oldcap), Max2(needed, lim))}

\* An array id no header other than header h refers to.
FreeId(hdrs, h) ==
  CHOOSE f \in ArrIds :
    /\ \A k \in DOMAIN hdrs : k # h => hdrs[k].arr # f
    /\ \A g \in ArrIds : (\A k \in DOMAIN hdrs : k # h => hdrs[k].arr # g) => f <= g

\* append(sv, xs...) when cap(sv) suffices: the cells after sv.len are
\* overwritten in place (xs was read before the copy, as memmove does).
AppendInPlace(arrs, sv, xs) ==
  [arrs EXCEPT ![sv.arr] =
     SubSeq(@, 1, sv.len) \o xs \o SubSeq(@, sv.len + Len(xs) + 1, Len(@))]

Fits(arrs, sv, xs) == sv.len + Len(xs) <= Cap(arrs, sv)

\* append(sv, xs...): the heap and the slice it returns; f and c are the id
\* and capacity of the array allocated when sv has no room for xs.
GoAppend(arrs, sv, xs, f, c) ==
  IF Fits(arrs, sv, xs)
  THEN [arrs |-> AppendInPlace(arrs, sv, xs),
        sv |-> [arr |-> sv.arr, len |-> sv.len + Len(xs)]]
  ELSE [arrs |-> [arrs EXCEPT ![f] =
                    Elems(arrs, sv) \o xs \o Zeros(c - (sv.len + Len(xs)))],
        sv |-> [arr |-> f, len |-> sv.len + Len(xs)]]

\* The cells of array a that some header can read: those below the largest
\* len of the headers on a.
Live(hdrs, a) ==
  LET lens == {hdrs[k].len : k \in {j \in DOMAIN hdrs : hdrs[j].arr = a}}
  IN IF lens = {} THEN 0 ELSE CHOOSE n \in lens : \A m \in lens : m <= n

\* Arrays no header refers to any more are reclaimed.  A cell above the len
\* of every header on its array is dead: no slice expression of the package
\* reads it (append overwrites it before a len grows past it), so it is kept
\* as Zero, which identifies the heaps that differ in dead cells only.
Collect(arrs, hdrs) ==
  [a \in ArrIds |->
     IF \E k \in DOMAIN hdrs : hdrs[k].arr = a
     THEN [i \in 1..Len(arrs[a]) |-> IF i <= Live(hdrs, a) THEN arrs[a][i] ELSE Zero]
     ELSE <<>>]

----------------------------------------------------------------------------
(* Bookkeeping of the run: how each List was made, and the last call       *)

InputsUpTo(n) == UNION {[1..k -> InVals] : k \in 0..n}

NoSeq == <<>>

\* The record of a call: the operation, the receiver, the other operand,
\* the value and index arguments, the contents of the receiver (pre) and of
\* the other operand (pre2) when the call started, the value returned, and
\* whether the call ended in a run-time panic.  For an Index call, appended
\* tells whether the call before it was an Append to the same receiver of
\* the value now looked up.
Call(op, recv, other, arg, idx, pre, pre2, val, fault, appended) ==
  [op |-> op, recv |-> recv, other |-> other, arg |-> arg, idx |-> idx,
   pre |-> pre, pre2 |-> pre2, val |-> val, fault |-> fault,
   appended |-> appended]

Mutation(op, recv, arg, idx, pre, fault) ==
  Call(op, recv, 0, arg, idx, pre, NoSeq, 0, fault, FALSE)

Query(op, recv, arg, val, fault) ==
  Call(op, recv, 0, arg, 0, Contents(recv), NoSeq, val, fault,
       op = "Index" /\ last.op = "Append" /\ last.recv = recv /\ last.arg = arg)

Made(by, src, src2, size) == [by |-> by, src |-> src, src2 |-> src2, size |-> size]

Ls == 1..Len(lists)

----------------------------------------------------------------------------
(* Construction                                                            *)

\* cast.ToStringSlice builds its result by appending the coerced elements
\* one by one to a nil slice: the capacities that can leave it with.
RECURSIVE CtorCaps(_, _)
CtorCaps(n, lim) ==
  IF n = 0 THEN {0}
  ELSE UNION {IF n <= c THEN {c} ELSE GrowCaps(c, n, lim) : c \in CtorCaps(n - 1, lim)}

\* NewList(va): val := cast.ToStringSlice(va); List{&val, len(val)}
NewListValue(va, c) == ToStringSlice(va) \o Zeros(c - Len(va))

NewListLength(va) == Len(ToStringSlice(va))

InitUpTo(lim) ==
  \E va \in InputsUpTo(lim) : \E c \in CtorCaps(Len(va), lim) :
    /\ arrays = [a \in ArrIds |-> IF a = 1 THEN NewListValue(va, c) ELSE <<>>]
    /\ hdr = <<[arr |-> 1, len |-> Len(va)]>>
    /\ lists = <<[value |-> 1, length |-> NewListLength(va)]>>
    /\ made = <<Made("NewList", 0, 0, Len(va))>>
    /\ last = Call("NewList", 1, 0, 0, 0, NoSeq, NoSeq, 0, FALSE, FALSE)

----------------------------------------------------------------------------
(* Queries                                                                 *)

\* A Length that counted the elements instead of reading the cached field.
LengthLive(l) == Len(Contents(l))

\* func (d List) Length() int { return d.length }
LengthOf(l) == lists[l].length

Length(l) ==
  /\ last' = Query("Length", l, 0, LengthOf(l), FALSE)
  /\ UNCHANGED <<arrays, hdr, lists, made>>

\* An inI that counted positions from 1.
RECURSIVE inIFromOne(_, _, _)
inIFromOne(fat, s, i) ==
  IF i > Len(fat) THEN -1
  ELSE IF fat[i] = s THEN i
  ELSE inIFromOne(fat, s, i + 1)

\* inI: the index (from 0) of the first element equal to s, or -1.
RECURSIVE inI(_, _, _)
inI(fat, s, i) ==
  IF i > Len(fat) THEN -1
  ELSE IF fat[i] = s THEN i - 1
  ELSE inI(fat, s, i + 1)

Index(l, sub) ==
  /\ last' = Query("Index", l, sub, inI(Contents(l), ToString(sub), 1), FALSE)
  /\ UNCHANGED <<arrays, hdr, lists, made>>

\* Min: d3 := cast.ToIntSlice(d2); sort.Ints(d3); return d3[0]
\* Max: ... return d3[len(d3)-1].  Indexing an empty d3 panics.
MinMaxFaults(l) == SortInts(ToIntSlice(Contents(l))) = <<>>

Min(l) ==
  LET d3 == SortInts(ToIntSlice(Contents(l)))
  IN /\ last' = IF MinMaxFaults(l)
                THEN Query("Min", l, 0, 0, TRUE)
                ELSE Query("Min", l, 0, d3[1], FALSE)
     /\ UNCHANGED <<arrays, hdr, lists, made>>

Max(l) ==
  LET d3 == SortInts(ToIntSlice(Contents(l)))
  IN /\ last' = IF MinMaxFaults(l)
                THEN Query("Max", l, 0, 0, TRUE)
                ELSE Query("Max", l, 0, d3[Len(d3)], FALSE)
     /\ UNCHANGED <<arrays, hdr, lists, made>>

----------------------------------------------------------------------------
(* Mutating operations                                                     *)

\* The heap after a call that left header h holding slice sv.
Store(arrs, h, sv) ==
  /\ hdr' = [hdr EXCEPT ![h] = sv]
  /\ arrays' = Collect(arrs, [hdr EXCEPT ![h] = sv])

\* Append: *d.value = append(fats, str)
AppendValue(l, value, lim) ==
  LET h == lists[l].value
      fats == hdr[h]
      str == ToString(value)
  IN /\ fats.len + 1 <= lim
     /\ \E c \in GrowCaps(Cap(arrays, fats), fats.len + 1, lim) :
          LET r == GoAppend(arrays, fats, <<str>>, FreeId(hdr, h), c)
          IN Store(r.arrs, h, r.sv)
     /\ last' = Mutation("Append", l, value, 0, NoSeq, FALSE)
     /\ UNCHANGED <<lists, made>>

\* Extend: *d.value = append(*d.value, subs...)
Extend(l, sub, lim) ==
  LET h == lists[l].value
      fats == hdr[h]
      subs == ToStringSlice(sub)
  IN /\ fats.len + Len(subs) <= lim
     /\ \E c \in GrowCaps(Cap(arrays, fats), fats.len + Len(subs), lim) :
          LET r == GoAppend(arrays, fats, subs, FreeId(hdr, h), c)
          IN Store(r.arrs, h, r.sv)
     /\ last' = Mutation("Extend", l, 0, 0, NoSeq, FALSE)
     /\ UNCHANGED <<lists, made>>

\* A Pop that took a negative index from the current size.
PopIndexLive(length, size, idx) == IF idx < 0 THEN size + idx ELSE idx

\* Pop: if idx < 0 { idx = d.length + idx }
PopIndex(length, size, idx) == IF idx < 0 THEN length + idx ELSE idx

\* A Pop whose second slice expression was clamped to the length.
PopFaultsClamped(fats, cap, e) == e < 0 \/ e > cap

\* fats[:idx] panics unless 0 <= idx <= cap(fats); fats[idx+1:] panics
\* unless idx+1 <= len(fats).
PopFaults(fats, cap, e) == e < 0 \/ e > cap \/ e + 1 > fats.len

\* append(fats[:idx], fats[(idx+1):]...): always within the capacity.
PopSlice(arrs, fats, e) ==
  GoAppend(arrs, [arr |-> fats.arr, len |-> e],
           SubSeq(arrs[fats.arr], e + 2, fats.len), fats.arr, Cap(arrs, fats))

Pop(l, idx) ==
  LET h == lists[l].value
      fats == hdr[h]
      e == PopIndex(lists[l].length, fats.len, idx)
  IN IF PopFaults(fats, Cap(arrays, fats), e)
     THEN /\ last' = Mutation("Pop", l, 0, idx, Contents(l), TRUE)
          /\ UNCHANGED <<arrays, hdr, lists, made>>
     ELSE /\ LET r == PopSlice(arrays, fats, e) IN Store(r.arrs, h, r.sv)
          /\ last' = Mutation("Pop", l, 0, idx, Contents(l), FALSE)
          /\ UNCHANGED <<lists, made>>

\* Remove: for i, v := range fats { if v == str { *d.value = append(fats[:i],
\* fats[(i+1):]...) } }.  The range runs over the len(fats) positions of the
\* header copied at entry, reads each v from the backing array when it gets
\* there, and does not stop at a match.  i counts from 1 here.
RECURSIVE RemoveLoop(_, _, _, _, _)
RemoveLoop(arrs, fats, str, i, sv) ==
  IF i > fats.len THEN [arrs |-> arrs, sv |-> sv]
  ELSE IF arrs[fats.arr][i] = str
  THEN LET r == PopSlice(arrs, fats, i - 1)
       IN RemoveLoop(r.arrs, fats, str, i + 1, r.sv)
  ELSE RemoveLoop(arrs, fats, str, i + 1, sv)

Remove(l, value) ==
  LET h == lists[l].value
      fats == hdr[h]
      r == RemoveLoop(arrays, fats, ToString(value), 1, fats)
  IN /\ Store(r.arrs, h, r.sv)
     /\ last' = Mutation("Remove", l, value, 0, Contents(l), FALSE)
     /\ UNCHANGED <<lists, made>>

\* Insert: res := append(fats[:idx], str); *d.value = append(res, fats[idx:]...)
\* fats[:idx] panics unless 0 <= idx <= cap(fats).
InsertFaultsFirst(fats, cap, idx) == idx < 0 \/ idx > cap

\* fats[idx:] panics unless idx <= len(fats); res has been built by then.
InsertFaultsSecond(fats, idx) == idx > fats.len

Insert(l, idx, value, lim) ==
  LET h == lists[l].value
      fats == hdr[h]
      str == ToString(value)
      f == FreeId(hdr, h)
  IN IF InsertFaultsFirst(fats, Cap(arrays, fats), idx)
     THEN /\ last' = Mutation("Insert", l, value, idx, Contents(l), TRUE)
          /\ UNCHANGED <<arrays, hdr, lists, made>>
     ELSE IF InsertFaultsSecond(fats, idx)
     THEN \* res was written before the panic: in place when idx < cap,
          \* into an array of its own (dropped with the panic) when idx = cap
          /\ arrays' = Collect(IF idx < Cap(arrays, fats)
                               THEN AppendInPlace(arrays, [arr |-> fats.arr, len |-> idx], <<str>>)
                               ELSE arrays, hdr)
          /\ last' = Mutation("Insert", l, value, idx, Contents(l), TRUE)
          /\ UNCHANGED <<hdr, lists, made>>
     ELSE /\ fats.len + 1 <= lim
          /\ \E c \in GrowCaps(Cap(arrays, fats), fats.len + 1, lim) :
               LET res == GoAppend(arrays, [arr |-> fats.arr, len |-> idx], <<str>>, f, c)
                   rest == SubSeq(res.arrs[fats.arr], idx + 1, fats.len)
                   r == GoAppend(res.arrs, res.sv, rest, f, c)
               IN Store(r.arrs, h, r.sv)
          /\ last' = Mutation("Insert", l, value, idx, Contents(l), FALSE)
          /\ UNCHANGED <<lists, made>>

----------------------------------------------------------------------------
(* Operations that return a new List                                       *)

NewCall(op, recv, other) ==
  Call(op, recv, other, 0, 0, Contents(recv), Contents(other), 0, FALSE, FALSE)

\* NewList(va) for a further List of the program.
NewList(va, lim) ==
  /\ Len(lists) < MaxLists
  /\ \E c \in CtorCaps(Len(va), lim) :
       arrays' = [arrays EXCEPT ![FreeId(hdr, 0)] = NewListValue(va, c)]
  /\ hdr' = Append(hdr, [arr |-> FreeId(hdr, 0), len |-> Len(va)])
  /\ lists' = Append(lists, [value |-> Len(hdr) + 1, length |-> NewListLength(va)])
  /\ made' = Append(made, Made("NewList", 0, 0, Len(va)))
  /\ last' = Call("NewList", Len(lists) + 1, 0, 0, 0, NoSeq, NoSeq, 0, FALSE, FALSE)

\* NilList: var val []string; List{&val, 0}
NilList ==
  /\ Len(lists) < MaxLists
  /\ arrays' = [arrays EXCEPT ![FreeId(hdr, 0)] = <<>>]
  /\ hdr' = Append(hdr, [arr |-> FreeId(hdr, 0), len |-> 0])
  /\ lists' = Append(lists, [value |-> Len(hdr) + 1, length |-> 0])
  /\ made' = Append(made, Made("NilList", 0, 0, 0))
  /\ last' = Call("NilList", Len(lists) + 1, 0, 0, 0, NoSeq, NoSeq, 0, FALSE, FALSE)

\* A Copy that gave the copy a slice header of its own (v := *d.value; &v).
CopyOwnHeader(l) ==
  [hdr |-> Append(hdr, hdr[lists[l].value]), value |-> Len(hdr) + 1,
   length |-> lists[l].length]

\* Copy: List{value: &(*d.value), length: d.length}; &(*p) is p itself.
CopyValue(l) ==
  [hdr |-> hdr, value |-> lists[l].value, length |-> lists[l].length]

Copy(l) ==
  /\ Len(lists) < MaxLists
  /\ hdr' = CopyValue(l).hdr
  /\ lists' = Append(lists, [value |-> CopyValue(l).value, length |-> CopyValue(l).length])
  /\ made' = Append(made, Made("Copy", l, 0, 0))
  /\ last' = NewCall("Copy", l, l)
  /\ UNCHANGED arrays

\* An Add that took the length from the slices it joined.
AddLengthLive(l, l2) == Len(Contents(l)) + Len(Contents(l2))

\* Add: l2 := d.length + d2.length
AddLength(l, l2) == lists[l].length + lists[l2].length

\* Add: d3Value := append(rdv, rdv2...); List{&d3Value, l2}
Add(l, l2, lim) ==
  LET rdv == hdr[lists[l].value]
      rdv2 == hdr[lists[l2].value]
      needed == rdv.len + rdv2.len
  IN /\ Len(lists) < MaxLists
     /\ needed <= lim
     /\ \E c \in GrowCaps(Cap(arrays, rdv), needed, lim) :
          LET r == GoAppend(arrays, rdv, Elems(arrays, rdv2), FreeId(hdr, 0), c)
          IN /\ arrays' = Collect(r.arrs, Append(hdr, r.sv))
             /\ hdr' = Append(hdr, r.sv)
     /\ lists' = Append(lists, [value |-> Len(hdr) + 1, length |-> AddLength(l, l2)])
     /\ made' = Append(made, Made("Add", l, l2, 0))
     /\ last' = NewCall("Add", l, l2)

\* The orders in which ranging over a map can yield the keys S.
KeyOrders(S) ==
  {p \in [1..Cardinality(S) -> S] : \A i, j \in 1..Cardinality(S) : p[i] = p[j] => i = j}

\* A Sub that kept the elements of d absent from d2: a set difference.
SubKeysDifference(l, l2) ==
  {Contents(l)[i] : i \in 1..Len(Contents(l))}
    \ {Contents(l2)[i] : i \in 1..Len(Contents(l2))}

\* Sub: the keys of d2Map, the distinct elements of append(rdv, rdv2...).
SubKeys(l, l2) ==
  LET d2Value == Contents(l) \o Contents(l2)
  IN {d2Value[i] : i \in 1..Len(d2Value)}

\* Sub: d2Value := append(rdv, rdv2...) writes into rdv's array when it has
\* room; d3Value := make([]string, 0, len(rdv)+len(rdv2)) takes the keys in
\* map order; List{&d3Value, len(d3Value)}
Sub(l, l2, lim) ==
  LET rdv == hdr[lists[l].value]
      rdv2 == hdr[lists[l2].value]
      l2cap == rdv.len + rdv2.len
      arrs == IF Fits(arrays, rdv, Elems(arrays, rdv2))
              THEN AppendInPlace(arrays, rdv, Elems(arrays, rdv2))
              ELSE arrays
      f == FreeId(hdr, 0)
  IN /\ Len(lists) < MaxLists
     /\ l2cap <= lim
     /\ \E d3Value \in KeyOrders(SubKeys(l, l2)) :
          /\ arrays' = Collect([arrs EXCEPT ![f] = d3Value \o Zeros(l2cap - Len(d3Value))],
                               Append(hdr, [arr |-> f, len |-> Len(d3Value)]))
          /\ hdr' = Append(hdr, [arr |-> f, len |-> Len(d3Value)])
          /\ lists' = Append(lists, [value |-> Len(hdr) + 1, length |-> Len(d3Value)])
     /\ made' = Append(made, Made("Sub", l, l2, 0))
     /\ last' = NewCall("Sub", l, l2)

----------------------------------------------------------------------------
(* Specifications                                                          *)

\* Every index up to one past the largest list, and as far below zero.
IdxRange(lim) == (0 - lim - 1)..(lim + 1)

\* The arguments tried for Extend: up to MaxSub values that fit.
ExtendInputs(l, lim) == InputsUpTo(Min2(MaxSub, lim - Len(Contents(l))))

\* The indices tried for Insert, which treats every negative index alike.
InsertRange(lim) == (-1)..(lim + 1)

\* One List of up to MaxCap elements and the calls on it.
Init == InitUpTo(MaxCap)

Next ==
  \/ \E l \in Ls : Length(l)
  \/ \E l \in Ls : Min(l)
  \/ \E l \in Ls : Max(l)
  \/ \E l \in Ls : \E sub \in InVals : Index(l, sub)
  \/ \E l \in Ls : \E value \in InVals : AppendValue(l, value, MaxCap)
  \/ \E l \in Ls : \E sub \in ExtendInputs(l, MaxCap) : Extend(l, sub, MaxCap)
  \/ \E l \in Ls : \E idx \in IdxRange(MaxCap) : Pop(l, idx)
  \/ \E l \in Ls : \E value \in InVals : Remove(l, value)
  \/ \E l \in Ls : \E idx \in InsertRange(MaxCap) : \E value \in InVals :
       Insert(l, idx, value, MaxCap)

Spec == Init /\ [][Next]_vars

\* A List of up to ShareCap + 1 elements and its copies: Copy, and every
\* mutating call on the List or on a copy.
InitCopy == InitUpTo(ShareCap + 1)

NextCopy ==
  \/ \E l \in Ls : Copy(l)
  \/ \E l \in Ls : \E value \in InVals : AppendValue(l, value, ShareCap + 1)
  \/ \E l \in Ls : \E sub \in ExtendInputs(l, ShareCap + 1) : Extend(l, sub, ShareCap + 1)
  \/ \E l \in Ls : \E idx \in IdxRange(ShareCap + 1) : Pop(l, idx)
  \/ \E l \in Ls : \E value \in InVals : Remove(l, value)
  \/ \E l \in Ls : \E idx \in InsertRange(ShareCap + 1) : \E value \in InVals :
       Insert(l, idx, value, ShareCap + 1)

SpecCopy == InitCopy /\ [][NextCopy]_vars

\* The three Lists, the first two of up to lim elements: construction, Copy,
\* Add and Sub, and Append and Pop on the Lists made so far, until the third
\* List is made.  Add and Sub join any two of them.
NextSharedUpTo(lim) ==
  \/ \E l \in Ls : \E value \in InVals :
       Len(lists) < MaxLists /\ AppendValue(l, value, lim)
  \/ \E l \in Ls : \E idx \in IdxRange(lim) :
       Len(lists) < MaxLists /\ Pop(l, idx)
  \/ \E va \in InputsUpTo(lim) : NewList(va, lim)
  \/ NilList
  \/ \E l \in Ls : Copy(l)
  \/ \E l \in Ls : \E l2 \in Ls : Add(l, l2, 4 * lim)
  \/ \E l \in Ls : \E l2 \in Ls : Sub(l, l2, 4 * lim)

InitShared == InitUpTo(ShareCap)

NextShared == NextSharedUpTo(ShareCap)

SpecShared == InitShared /\ [][NextShared]_vars

\* The same with Lists one element longer, which lets a List that holds an
\* element keep spare capacity.
InitAlias == InitUpTo(ShareCap + 1)

NextAlias == NextSharedUpTo(ShareCap + 1)

SpecAlias == InitAlias /\ [][NextAlias]_vars

----------------------------------------------------------------------------
(* The claims                                                              *)

Range(s) == {s[i] : i \in 1..Len(s)}

Occurrences(s, x) == Cardinality({i \in 1..Len(s) : s[i] = x})

\* s without its element at position e, counted from 0.
DropAt(s, e) == SubSeq(s, 1, e) \o SubSeq(s, e + 2, Len(s))

\* The position, counted from 0, of the first x in s; Len(s) when none.
FirstAt(s, x) ==
  IF x \in Range(s)
  THEN (CHOOSE i \in 1..Len(s) : s[i] = x /\ \A j \in 1..(i - 1) : s[j] # x) - 1
  ELSE Len(s)

\* The List a call that returns a List has just made.
Made1 == Len(lists)

\* C1: Remove(x) on contents that hold x leaves them with only the first x
\* deleted, every other element kept once and in order.
C1_RemoveFirstOnly ==
  (last.op = "Remove" /\ ToString(last.arg) \in Range(last.pre))
    => Contents(last.recv) = DropAt(last.pre, FirstAt(last.pre, ToString(last.arg)))

\* C2: Insert(i, v) with 0 <= i <= size leaves s[0..i-1], the text of v,
\* s[i..].
C2_InsertKeepsAll ==
  (last.op = "Insert" /\ 0 <= last.idx /\ last.idx <= Len(last.pre))
    => Contents(last.recv) =
         SubSeq(last.pre, 1, last.idx) \o <<ToString(last.arg)>>
           \o SubSeq(last.pre, last.idx + 1, Len(last.pre))

\* The effective index of the Pop in last: i, or cached length + i when i < 0.
Effective == IF last.idx < 0 THEN lists[last.recv].length + last.idx ELSE last.idx

\* C3: Pop(i) removes exactly the element at the effective index e, taken
\* from the cached length when i < 0, and keeps the others in order, whenever
\* 0 <= e < size.
C3_PopEffective ==
  (last.op = "Pop" /\ 0 <= Effective /\ Effective < Len(last.pre))
    => /\ ~last.fault
       /\ Contents(last.recv) = DropAt(last.pre, Effective)

\* Pop(-1) on a List built with 3 elements that has grown to 4 removed the
\* third element and left the appended one.
C3_Witness ==
  /\ last.op = "Pop" /\ last.idx = -1 /\ ~last.fault
  /\ made[last.recv].by = "NewList" /\ made[last.recv].size = 3
  /\ Len(last.pre) = 4 /\ last.pre[3] # last.pre[4]
  /\ Contents(last.recv) = <<last.pre[1], last.pre[2], last.pre[4]>>

\* C4: a step that is an Add changes the contents of no List there was, and
\* no later Add or mutating call on an operand of an Add changes the contents
\* of the List that Add returned (the operand not being that List's copy).
C4_AddIsolated ==
  [][/\ (last'.op = "Add" /\ Len(lists') = Len(lists) + 1)
          => \A l \in Ls : ContentsIn(arrays', hdr', lists', l) = Contents(l)
     /\ \A r \in Ls :
          (/\ made[r].by = "Add"
           /\ last'.op \in {"Add", "Append", "Extend", "Insert", "Remove", "Pop"}
           /\ last'.recv \in {made[r].src, made[r].src2}
           /\ lists[last'.recv].value # lists[r].value)
            => ContentsIn(arrays', hdr', lists', r) = Contents(r)]_vars

\* C5: a List made by Copy and the List it was copied from show the same
\* contents and the same Length in every state.
C5_CopyShares ==
  \A c \in Ls :
    made[c].by = "Copy"
      => /\ Contents(c) = Contents(made[c].src)
         /\ LengthOf(c) = LengthOf(made[c].src)

\* An Append through the original has grown what the copy shows, past the
\* length both report.
C5_Witness ==
  \E c \in Ls :
    /\ made[c].by = "Copy"
    /\ last.op = "Append" /\ last.recv = made[c].src
    /\ Contents(c) = Contents(made[c].src)
    /\ Len(Contents(c)) > LengthOf(c)

\* C6: Append(v) followed by Index(v) returns the last valid position.
C6_IndexIsLast ==
  (last.op = "Index" /\ last.appended)
    => last.val = Len(Contents(last.recv)) - 1

\* C6 as amended: Append(v) on contents s followed by Index(v) returns the
\* position of the first element equal to the text of v: size(s) when s
\* holds none, the position of its first occurrence in s otherwise.
C6_IndexIsFirst ==
  (last.op = "Index" /\ last.appended)
    => LET s == SubSeq(Contents(last.recv), 1, Len(Contents(last.recv)) - 1)
       IN /\ Contents(last.recv) = s \o <<ToString(last.arg)>>
          /\ last.val = FirstAt(s, ToString(last.arg))

\* Index after Append returned the new last position of a non-empty s
\* without the value.
C6_Witness ==
  /\ last.op = "Index" /\ last.appended
  /\ Len(Contents(last.recv)) >= 3
  /\ Occurrences(Contents(last.recv), ToString(last.arg)) = 1
  /\ last.val = Len(Contents(last.recv)) - 1

\* C7: a List built by NewList has Length() equal to its size when built,
\* and Length() still returns that value after any mutating calls.
C7_LengthIsCached ==
  /\ last.op = "NewList" => LengthOf(last.recv) = Len(Contents(last.recv))
  /\ (last.op = "Length" /\ made[last.recv].by = "NewList")
       => last.val = made[last.recv].size

\* Length() returned the size at construction of a List that has since
\* changed size.
C7_Witness ==
  /\ last.op = "Length" /\ made[last.recv].by = "NewList"
  /\ last.val = made[last.recv].size
  /\ Len(Contents(last.recv)) # last.val

\* C8: A.Add(B) returns a List holding A's elements followed by B's, whose
\* Length() is A.Length() + B.Length().
C8_AddConcatenates ==
  last.op = "Add"
    => /\ Contents(Made1) = last.pre \o last.pre2
       /\ LengthOf(Made1) = LengthOf(last.recv) + LengthOf(last.other)

\* Add joined two different non-empty Lists, one with a stale cached length.
C8_Witness ==
  /\ last.op = "Add" /\ last.recv # last.other
  /\ last.pre # <<>> /\ last.pre2 # <<>>
  /\ Contents(Made1) = last.pre \o last.pre2
  /\ LengthOf(Made1) # Len(Contents(Made1))

C10_OutOfRangeFaults ==
  /\ (last.op = "Pop" /\ (Effective < 0 \/ Effective >= Len(last.pre)))
       => last.fault /\ Contents(last.recv) = last.pre
  /\ (last.op = "Insert" /\ (last.idx < 0 \/ last.idx > Len(last.pre)))
       => last.fault /\ Contents(last.recv) = last.pre
  /\ (last.op \in {"Min", "Max"} /\ last.pre = <<>>)
       => last.fault /\ Contents(last.recv) = last.pre

\* Insert past the size but inside the capacity panicked after writing the
\* value into the backing array, above the contents.
C10_Witness ==
  /\ last.op = "Insert" /\ last.fault
  /\ last.idx > Len(last.pre)
  /\ last.idx < Len(arrays[hdr[lists[last.recv].value].arr])
  /\ Contents(last.recv) = last.pre /\ last.pre # <<>>

====
